---- MODULE Spec2Model ----
(***************************************************************************)
(* State-machine model of rsmt2d's repair of an extended data square:      *)
(* RepairExtendedDataSquare, prerepairSanityCheck, solveCrossword and      *)
(* verifyAgainstRoots (extendeddatacrossword.go).  The codec, the tree,    *)
(* the bit matrix and the square itself live outside the two source files  *)
(* and are modelled from their documented contracts.                       *)
(***************************************************************************)
EXTENDS Integers, Sequences, FiniteSets, TLC

\* ------------------------------------------------------------------------
\* Bounds of the model
\* ------------------------------------------------------------------------
\* Largest number of erased (nil) cells of an unmodified input.
MaxErased == 10
\* Largest number of erased cells of an input that carries a modification.
MaxTamperedErased == 2
\* Largest number of erased cells of an unmodified input, and of an input
\* that carries a modification, when the visits are taken in any order.
MaxErasedAnyOrder == 2
MaxTamperedErasedAnyOrder == 1

\* The original data blocks the inputs are encoded from (see Block).
BlockSeeds == {1}
\* The amounts added (mod FieldOrder) to a byte by a modification.
Deltas == {1}

\* Lengths of the flat chunk list handed to RepairExtendedDataSquare:
\* empty, not a square number, a 2x2 and a 4x4 extended square.
DataLens == {0, 3, 4, 16}

\* ------------------------------------------------------------------------
\* Values
\* ------------------------------------------------------------------------
\* A nil []byte (a missing chunk, an unset share): a value that is no chunk,
\* chunks being sequences of bytes 0 .. FieldOrder-1.
Nil == <<-1>>
\* A nil *ExtendedDataSquare.
NilEds == [width |-> 0, originalDataWidth |-> 0, square |-> <<>>]
\* A nil error.
NoErr == [kind |-> "none"]

row == 0
column == 1

ErrUnrepairableDataSquare == [kind |-> "unrepairable"]
ErrByzantineRow(n) == [kind |-> "byzantineRow", index |-> n]
ErrByzantineColumn(n) == [kind |-> "byzantineColumn", index |-> n]
\* fmt.Errorf("bad root input: row/col %d ...") of prerepairSanityCheck.
ErrBadRoot(m, n) == [kind |-> "badRootInput", mode |-> m, index |-> n]
\* The error of ImportExtendedDataSquare for a list that is no square.
ErrImport == [kind |-> "import"]

\* ------------------------------------------------------------------------
\* Codec: a systematic MDS code over the integers mod FieldOrder.  An axis
\* of 2k chunks holds, byte by byte, the values at 0 .. 2k-1 of the
\* polynomial of degree < k whose values at 0 .. k-1 are the data bytes.
\* ------------------------------------------------------------------------
FieldOrder == 5

Byte == 0 .. (FieldOrder - 1)

\* The inverse of a (not 0 mod FieldOrder).
Inv(a) == CHOOSE v \in 1 .. (FieldOrder - 1) : (a * v) % FieldOrder = 1

RECURSIVE Basis(_, _, _)
\* The Lagrange basis polynomial of point j among the points S, at x:
\* the product over m in S of (x - m) / (j - m).
Basis(S, j, x) ==
    IF S = {} THEN 1
    ELSE LET m == CHOOSE m \in S : TRUE
         IN  (((x - m) % FieldOrder) * Inv((j - m) % FieldOrder)
                * Basis(S \ {m}, j, x)) % FieldOrder

RECURSIVE InterpolateFrom(_, _, _, _, _)
InterpolateFrom(shares, S, R, b, x) ==
    IF R = {} THEN 0
    ELSE LET j == CHOOSE j \in R : TRUE
         IN  (shares[j][b] * Basis({m - 1 : m \in S \ {j}}, j - 1, x)
                + InterpolateFrom(shares, S, R \ {j}, b, x)) % FieldOrder

\* The value at x of the polynomial of degree < Cardinality(S) through the
\* points (j - 1, shares[j][b]) for j in S.
Interpolate(shares, S, b, x) == InterpolateFrom(shares, S, S, b, x)

ChunkLen(shares) ==
    IF \E j \in 1 .. Len(shares) : shares[j] # Nil
    THEN Len(shares[CHOOSE j \in 1 .. Len(shares) : shares[j] # Nil])
    ELSE 0

\* Codec.Encode: the len(data) parity chunks of len(data) data chunks.
Encode(data) ==
    LET k == Len(data)
        n == ChunkLen(data)
    IN  [p \in 1 .. k |->
            [b \in 1 .. n |-> Interpolate(data, 1 .. k, b, k + p - 1)]]

KnownShares(shares) == {j \in 1 .. Len(shares) : shares[j] # Nil}

\* Whether Codec.Decode succeeds: at least half of the shares are known.
CanDecode(shares) == 2 * Cardinality(KnownShares(shares)) >= Len(shares)

\* The data chunks recovered from the known shares at positions S.
DecodeFrom(shares, S) ==
    LET k == Len(shares) \div 2
        n == ChunkLen(shares)
    IN  [d \in 1 .. k |->
            [b \in 1 .. n |-> Interpolate(shares, S, b, d - 1)]]

\* Codec.Decode: the original chunks of an axis.  With consistent shares
\* every choice of k known shares gives the same chunks; which known shares
\* a codec uses on inconsistent ones is left open.
Decode(shares) ==
    LET k == Len(shares) \div 2
    IN  {DecodeFrom(shares, S) :
            S \in {T \in SUBSET KnownShares(shares) : Cardinality(T) = k}}

\* ------------------------------------------------------------------------
\* Tree: a collision-free commitment to the pushed leaves, in push order.
\* ------------------------------------------------------------------------
TreeRoot(leaves) == <<"root", leaves>>

\* ------------------------------------------------------------------------
\* Bit matrix (newBitMatrix, SetFlat, Set, Get, RowIsOne, ColumnIsOne,
\* RowRangeIsOne, ColRangeIsOne)
\* ------------------------------------------------------------------------
Idx(w) == 0 .. (w - 1)

newBitMatrix(w) == [r \in Idx(w) |-> [c \in Idx(w) |-> FALSE]]

Width(mat) == Cardinality(DOMAIN mat)

Set(mat, r, c) == [mat EXCEPT ![r][c] = TRUE]

\* SetFlat(i): bit i of the row-major order.
SetFlat(mat, w, n) == Set(mat, n \div w, n % w)

Get(mat, r, c) == mat[r][c]

RowRangeIsOne(mat, r, lo, hi) == \A c \in lo .. (hi - 1) : mat[r][c]
ColRangeIsOne(mat, c, lo, hi) == \A r \in lo .. (hi - 1) : mat[r][c]
RowIsOne(mat, r) == RowRangeIsOne(mat, r, 0, Width(mat))
ColumnIsOne(mat, c) == ColRangeIsOne(mat, c, 0, Width(mat))

\* ------------------------------------------------------------------------
\* Extended data square (ImportExtendedDataSquare, Row, Column, rowSlice,
\* columnSlice, RowRoot, ColRoot)
\* ------------------------------------------------------------------------
\* int(math.Ceil(math.Sqrt(float64(n))))
CeilSqrt(n) == CHOOSE w \in 0 .. n : w * w >= n /\ (w = 0 \/ (w - 1) * (w - 1) < n)

\* The square of a flat row-major chunk list of w * w chunks.
ImportExtendedDataSquare(chunks, w) ==
    [width |-> w,
     originalDataWidth |-> w \div 2,
     square |-> [r \in Idx(w) |-> [c \in Idx(w) |-> chunks[r * w + c + 1]]]]

Row(sq, r) == [j \in 1 .. sq.width |-> sq.square[r][j - 1]]
Column(sq, c) == [j \in 1 .. sq.width |-> sq.square[j - 1][c]]

\* rowSlice(x, y, length), columnSlice(x, y, length): length chunks from (x, y).
rowSlice(sq, x, y, length) == [j \in 1 .. length |-> sq.square[x][y + j - 1]]
columnSlice(sq, x, y, length) == [j \in 1 .. length |-> sq.square[x + j - 1][y]]

RowRoot(sq, r) == TreeRoot(Row(sq, r))
ColRoot(sq, c) == TreeRoot(Column(sq, c))

\* flattenChunks: the bytes of the chunks, one after the other.
RECURSIVE flattenChunks(_)
flattenChunks(chunks) ==
    IF Len(chunks) = 0 THEN <<>>
    ELSE Head(chunks) \o flattenChunks(Tail(chunks))

\* ------------------------------------------------------------------------
\* verifyAgainstRoots
\* ------------------------------------------------------------------------
\* The error of verifyAgainstRoots(rowRoots, columnRoots, mode, i, shares):
\* the root of a fresh tree over the shares against the supplied root.
verifyAgainstRoots(rowRoots, columnRoots, mode, n, shares) ==
    LET root == TreeRoot(shares)
    IN  IF mode = row
        THEN IF root # rowRoots[n + 1] THEN ErrByzantineRow(n) ELSE NoErr
        ELSE IF root # columnRoots[n + 1] THEN ErrByzantineColumn(n) ELSE NoErr

\* ------------------------------------------------------------------------
\* prerepairSanityCheck
\* ------------------------------------------------------------------------
noMissingData(input) == \A j \in 1 .. Len(input) : input[j] # Nil

\* SanityCheckAt without the two root comparisons: only the parity of the
\* fully present axes is checked.
SanityCheckAt_NoRootCheck(sq, rowRoots, columnRoots, mat, n) ==
    LET k == sq.originalDataWidth
    IN  IF /\ RowIsOne(mat, n)
           /\ flattenChunks(Encode(rowSlice(sq, n, 0, k)))
                # flattenChunks(rowSlice(sq, n, k, k))
        THEN ErrByzantineRow(n)
        ELSE IF /\ ColumnIsOne(mat, n)
                /\ flattenChunks(Encode(columnSlice(sq, 0, n, k)))
                     # flattenChunks(columnSlice(sq, k, n, k))
        THEN ErrByzantineColumn(n)
        ELSE NoErr

\* SanityCheckAt with the parity of the fully present axes checked before
\* their roots.
SanityCheckAt_ParityFirst(sq, rowRoots, columnRoots, mat, n) ==
    LET rowIsComplete == RowIsOne(mat, n)
        colIsComplete == ColumnIsOne(mat, n)
        k == sq.originalDataWidth
    IN  IF /\ rowIsComplete
           /\ flattenChunks(Encode(rowSlice(sq, n, 0, k)))
                # flattenChunks(rowSlice(sq, n, k, k))
        THEN ErrByzantineRow(n)
        ELSE IF /\ colIsComplete
                /\ flattenChunks(Encode(columnSlice(sq, 0, n, k)))
                     # flattenChunks(columnSlice(sq, k, n, k))
        THEN ErrByzantineColumn(n)
        ELSE IF /\ noMissingData(Row(sq, n))
                /\ rowIsComplete
                /\ rowRoots[n + 1] # RowRoot(sq, n)
        THEN ErrBadRoot(row, n)
        ELSE IF /\ noMissingData(Column(sq, n))
                /\ colIsComplete
                /\ columnRoots[n + 1] # ColRoot(sq, n)
        THEN ErrBadRoot(column, n)
        ELSE NoErr

\* SanityCheckAt with the parity of the column checked before the parity of
\* the row.
SanityCheckAt_ColumnParityFirst(sq, rowRoots, columnRoots, mat, n) ==
    LET rowIsComplete == RowIsOne(mat, n)
        colIsComplete == ColumnIsOne(mat, n)
        k == sq.originalDataWidth
    IN  IF /\ noMissingData(Row(sq, n))
           /\ rowIsComplete
           /\ rowRoots[n + 1] # RowRoot(sq, n)
        THEN ErrBadRoot(row, n)
        ELSE IF /\ noMissingData(Column(sq, n))
                /\ colIsComplete
                /\ columnRoots[n + 1] # ColRoot(sq, n)
        THEN ErrBadRoot(column, n)
        ELSE IF /\ colIsComplete
                /\ flattenChunks(Encode(columnSlice(sq, 0, n, k)))
                     # flattenChunks(columnSlice(sq, k, n, k))
        THEN ErrByzantineColumn(n)
        ELSE IF /\ rowIsComplete
                /\ flattenChunks(Encode(rowSlice(sq, n, 0, k)))
                     # flattenChunks(rowSlice(sq, n, k, k))
        THEN ErrByzantineRow(n)
        ELSE NoErr

\* The checks of one loop iteration, in the order of the code: row root,
\* column root, row parity, column parity.
SanityCheckAt(sq, rowRoots, columnRoots, mat, n) ==
    LET rowIsComplete == RowIsOne(mat, n)
        colIsComplete == ColumnIsOne(mat, n)
        k == sq.originalDataWidth
    IN  IF /\ noMissingData(Row(sq, n))
           /\ rowIsComplete
           /\ rowRoots[n + 1] # RowRoot(sq, n)
        THEN ErrBadRoot(row, n)
        ELSE IF /\ noMissingData(Column(sq, n))
                /\ colIsComplete
                /\ columnRoots[n + 1] # ColRoot(sq, n)
        THEN ErrBadRoot(column, n)
        ELSE IF /\ rowIsComplete
                /\ flattenChunks(Encode(rowSlice(sq, n, 0, k)))
                     # flattenChunks(rowSlice(sq, n, k, k))
        THEN ErrByzantineRow(n)
        ELSE IF /\ colIsComplete
                /\ flattenChunks(Encode(columnSlice(sq, 0, n, k)))
                     # flattenChunks(columnSlice(sq, k, n, k))
        THEN ErrByzantineColumn(n)
        ELSE NoErr

RECURSIVE SanityCheckFrom(_, _, _, _, _)
SanityCheckFrom(sq, rowRoots, columnRoots, mat, n) ==
    IF n >= sq.width THEN NoErr
    ELSE LET e == SanityCheckAt(sq, rowRoots, columnRoots, mat, n)
         IN  IF e # NoErr THEN e
             ELSE SanityCheckFrom(sq, rowRoots, columnRoots, mat, n + 1)

prerepairSanityCheck(sq, rowRoots, columnRoots, mat) ==
    SanityCheckFrom(sq, rowRoots, columnRoots, mat, 0)

\* ------------------------------------------------------------------------
\* solveCrossword: the visit of one axis
\* ------------------------------------------------------------------------
\* isIncomplete with the negation lost.
isIncomplete_Negated(mat, mode, n) ==
    IF mode = row THEN RowIsOne(mat, n) ELSE ColumnIsOne(mat, n)

isIncomplete(mat, mode, n) ==
    IF mode = row THEN ~RowIsOne(mat, n) ELSE ~ColumnIsOne(mat, n)

isExtendedPartIncomplete(sq, mat, mode, n) ==
    IF mode = row
    THEN ~RowRangeIsOne(mat, n, sq.originalDataWidth, sq.width)
    ELSE ~ColRangeIsOne(mat, n, sq.originalDataWidth, sq.width)

\* Shares without the test of the bit mask: every cell of the axis is
\* handed on, the placeholders too.
Shares_IgnoringMask(sq, mat, mode, n) ==
    [j \in 1 .. sq.width |->
        IF mode = row THEN Row(sq, n)[j] ELSE Column(sq, n)[j]]

\* "Prepare shares": the chunks of the axis the bit mask marks present,
\* nil elsewhere.
Shares(sq, mat, mode, n) ==
    [j \in 1 .. sq.width |->
        IF mode = row
        THEN IF Get(mat, n, j - 1) THEN Row(sq, n)[j] ELSE Nil
        ELSE IF Get(mat, j - 1, n) THEN Column(sq, n)[j] ELSE Nil]

\* shares[from:] of a Go slice (from counted from 0).
SliceFrom(shares, from) == SubSeq(shares, from + 1, Len(shares))

\* The vector that is verified and written back: the decoded chunks followed
\* by the re-encoded parity, or by shares[eds.width:].
RebuiltShares(sq, mat, mode, n, decoded) ==
    IF isExtendedPartIncomplete(sq, mat, mode, n)
    THEN decoded \o Encode(decoded)
    ELSE decoded \o SliceFrom(Shares(sq, mat, mode, n), sq.width)

\* The check of the orthogonal axis through position j of the solved axis.
OrthogonalErrAt(sq, mat, rowRoots, columnRoots, mode, n, rebuiltShares, j) ==
    IF mode = row
    THEN IF /\ ~Get(mat, n, j)
            /\ ColumnIsOne(mat, j)
            /\ verifyAgainstRoots(rowRoots, columnRoots, column, j, rebuiltShares) # NoErr
         THEN ErrByzantineColumn(j)
         ELSE NoErr
    ELSE IF /\ ~Get(mat, j, n)
            /\ RowIsOne(mat, j)
            /\ verifyAgainstRoots(rowRoots, columnRoots, row, j, rebuiltShares) # NoErr
         THEN ErrByzantineRow(j)
         ELSE NoErr

RECURSIVE OrthogonalErrFrom(_, _, _, _, _, _, _, _)
OrthogonalErrFrom(sq, mat, rowRoots, columnRoots, mode, n, rebuiltShares, j) ==
    IF j >= sq.width THEN NoErr
    ELSE LET e == OrthogonalErrAt(sq, mat, rowRoots, columnRoots, mode, n, rebuiltShares, j)
         IN  IF e # NoErr THEN e
             ELSE OrthogonalErrFrom(sq, mat, rowRoots, columnRoots, mode, n, rebuiltShares, j + 1)

\* The error, if any, of the checks made on a decoded axis before it is
\* written: its own root first, then the orthogonal axes.
VerifyErr(sq, mat, rowRoots, columnRoots, mode, n, rebuiltShares) ==
    LET e == verifyAgainstRoots(rowRoots, columnRoots, mode, n, rebuiltShares)
    IN  IF e # NoErr THEN e
        ELSE OrthogonalErrFrom(sq, mat, rowRoots, columnRoots, mode, n, rebuiltShares, 0)

\* SetAxisMask that builds a new mask holding the bits of the axis only.
SetAxisMask_AxisOnly(mat, mode, n) ==
    [r \in DOMAIN mat |-> [c \in DOMAIN mat |->
        (mode = row /\ r = n) \/ (mode = column /\ c = n)]]

\* "Set vector mask to true"
SetAxisMask(mat, mode, n) ==
    [r \in DOMAIN mat |-> [c \in DOMAIN mat |->
        IF (mode = row /\ r = n) \/ (mode = column /\ c = n)
        THEN TRUE ELSE mat[r][c]]]

\* InsertShares with the two coordinates of setCell exchanged.
InsertShares_Transposed(sq, mode, n, rebuiltShares) ==
    [sq EXCEPT !.square =
        [r \in Idx(sq.width) |-> [c \in Idx(sq.width) |->
            IF mode = row /\ c = n /\ r < Len(rebuiltShares)
            THEN rebuiltShares[r + 1]
            ELSE IF mode = column /\ r = n /\ c < Len(rebuiltShares)
            THEN rebuiltShares[c + 1]
            ELSE sq.square[r][c]]]]

\* "Insert rebuilt shares into square": setCell for every p, s of
\* range rebuiltShares.
InsertShares(sq, mode, n, rebuiltShares) ==
    [sq EXCEPT !.square =
        [r \in Idx(sq.width) |-> [c \in Idx(sq.width) |->
            IF mode = row /\ r = n /\ c < Len(rebuiltShares)
            THEN rebuiltShares[c + 1]
            ELSE IF mode = column /\ c = n /\ r < Len(rebuiltShares)
            THEN rebuiltShares[r + 1]
            ELSE sq.square[r][c]]]]

\* AfterDecode with the axis written before it is verified.
AfterDecode_CommitFirst(sq, mat, rowRoots, columnRoots, mode, n, decoded) ==
    LET rebuiltShares == RebuiltShares(sq, mat, mode, n, decoded)
    IN  [err |-> VerifyErr(sq, mat, rowRoots, columnRoots, mode, n, rebuiltShares),
         mask |-> SetAxisMask(mat, mode, n),
         eds |-> InsertShares(sq, mode, n, rebuiltShares)]

\* What the visit of a decoded axis leaves behind: the error returned, the
\* bit mask and the square.
AfterDecode(sq, mat, rowRoots, columnRoots, mode, n, decoded) ==
    LET rebuiltShares == RebuiltShares(sq, mat, mode, n, decoded)
        e == VerifyErr(sq, mat, rowRoots, columnRoots, mode, n, rebuiltShares)
    IN  IF e # NoErr
        THEN [err |-> e, mask |-> mat, eds |-> sq]
        ELSE [err |-> NoErr,
              mask |-> SetAxisMask(mat, mode, n),
              eds |-> InsertShares(sq, mode, n, rebuiltShares)]

\* ------------------------------------------------------------------------
\* Inputs: a correctly encoded square, at most one modified byte, erasures
\* ------------------------------------------------------------------------
\* Original data block number s of width k, one byte per chunk.
Block(s, k) ==
    [r \in Idx(k) |-> [c \in Idx(k) |-> <<(s + r * k + c) % FieldOrder>>]]

\* The extended square of a block: every row of the block extended to the
\* right, then every column of the result extended downwards.
ExtendBlock(block, k) ==
    LET top == [r \in Idx(k) |->
                   LET d == [j \in 1 .. k |-> block[r][j - 1]]
                   IN  d \o Encode(d)]
        col == [c \in Idx(2 * k) |->
                   LET d == [j \in 1 .. k |-> top[j - 1][c + 1]]
                   IN  d \o Encode(d)]
    IN  [r \in Idx(2 * k) |-> [c \in Idx(2 * k) |-> col[c][r + 1]]]

NoTamper ==
    [r |-> 0, c |-> 0, delta |-> 0,
     inData |-> FALSE, inRowRoots |-> FALSE, inColRoots |-> FALSE]

\* A modification: delta is added to the byte of cell (r, c) in the chunk
\* list, in the square the row roots commit to, in the square the column
\* roots commit to, or in several of them.
Tampers(w) ==
    {NoTamper} \cup
    {t \in [r : Idx(w), c : Idx(w), delta : Deltas,
            inData : BOOLEAN, inRowRoots : BOOLEAN, inColRoots : BOOLEAN] :
        t.inData \/ t.inRowRoots \/ t.inColRoots}

Modified(square, t) ==
    [square EXCEPT ![t.r][t.c] = <<(square[t.r][t.c][1] + t.delta) % FieldOrder>>]

\* flattened(): the cells of a square in row-major order.
Flattened(square, w) ==
    [j \in 1 .. (w * w) |-> square[(j - 1) \div w][(j - 1) % w]]

RootsOf(square, w, mode) ==
    [j \in 1 .. w |->
        TreeRoot([p \in 1 .. w |->
            IF mode = row THEN square[j - 1][p - 1] ELSE square[p - 1][j - 1]])]

\* The sets of erased positions of a list of n chunks: at most max of them,
\* or all of them.
Erasures(n, max) ==
    {E \in SUBSET (1 .. n) : Cardinality(E) <= max \/ E = 1 .. n}

\* ------------------------------------------------------------------------
\* State
\* ------------------------------------------------------------------------
VARIABLES
    data,           \* the chunk list of the call (nil chunks are filled in place)
    rowRoots,       \* the supplied row roots
    columnRoots,    \* the supplied column roots
    bitMask,        \* bitMat / bitMask
    eds,            \* the imported square, NilEds before the import
    pc,             \* "start", "sanity", "solve", "sweepEnd", "done"
    i,              \* solveCrossword: axis index of the next visit
    mode,           \* solveCrossword: mode of the next visit
    solved,         \* solveCrossword: solved
    progressMade,   \* solveCrossword: progressMade
    err,            \* the error returned by the call
    result,         \* the square returned by the call, NilEds if none
    sweeps,         \* number of sweeps of solveCrossword started
    decodes,        \* number of calls of Decode
    original,       \* the correctly encoded square the input was made from
    tamper,         \* the modification made to the input
    erased,         \* the positions of the chunk list that were nil in the input
    sweepMask,      \* bitMask as it was when the current sweep started
    pending         \* the visits of the current sweep still to come, when the
                    \* visits are taken in an arbitrary order

vars == <<data, rowRoots, columnRoots, bitMask, eds, pc, i, mode, solved,
          progressMade, err, result, sweeps, decodes, original, tamper, erased,
          sweepMask, pending>>

inputs == <<rowRoots, columnRoots, original, tamper, erased>>

\* The calls with a chunk list of one of the lengths lens, at most maxPlain
\* nil chunks in an unmodified input and maxTampered in a modified one.
InitWith(lens, maxPlain, maxTampered) ==
    /\ \E n \in lens, s \in BlockSeeds :
         LET w == CeilSqrt(n)
             isSquare == n > 0 /\ w * w = n
         IN  \E T \in {IF isSquare THEN ExtendBlock(Block(s, w \div 2), w \div 2)
                                   ELSE [r \in Idx(w) |-> [c \in Idx(w) |-> <<s>>]]} :
             \E plain \in {Erasures(n, maxPlain)} :
             \E tampered \in {Erasures(n, maxTampered)} :
             \E t \in (IF isSquare THEN Tampers(w) ELSE {NoTamper}) :
             \E M \in {IF isSquare THEN Modified(T, t) ELSE T} :
             \E sent \in {Flattened(IF t.inData THEN M ELSE T, w)} :
             \E rr \in {RootsOf(IF t.inRowRoots THEN M ELSE T, w, row)} :
             \E cr \in {RootsOf(IF t.inColRoots THEN M ELSE T, w, column)} :
             \E E \in (IF t = NoTamper THEN plain ELSE tampered) :
               /\ data = [j \in 1 .. n |-> IF j \in E THEN Nil ELSE sent[j]]
               /\ rowRoots = rr
               /\ columnRoots = cr
               /\ original = T
               /\ tamper = t
               /\ erased = E
    /\ bitMask = newBitMatrix(0)
    /\ eds = NilEds
    /\ pc = "start"
    /\ i = 0
    /\ mode = row
    /\ solved = FALSE
    /\ progressMade = FALSE
    /\ err = NoErr
    /\ result = NilEds
    /\ sweeps = 0
    /\ decodes = 0
    /\ sweepMask = newBitMatrix(0)
    /\ pending = {}

Init == InitWith(DataLens, MaxErased, MaxTamperedErased)

\* ------------------------------------------------------------------------
\* RepairExtendedDataSquare, up to the import of the square
\* ------------------------------------------------------------------------
\* The first loop over the chunk list from position j on: SetFlat for every
\* chunk that is not nil.
RECURSIVE BitMatFrom(_, _, _, _)
BitMatFrom(mat, chunks, w, j) ==
    IF j > Len(chunks) THEN mat
    ELSE BitMatFrom(IF chunks[j] # Nil THEN SetFlat(mat, w, j - 1) ELSE mat,
                    chunks, w, j + 1)

\* bitMat after the first loop.
BitMatOf(chunks, w) == BitMatFrom(newBitMatrix(w), chunks, w, 1)

\* ChunkSizeOf that is never 0: a list without chunks gets chunk size 1.
ChunkSizeOf_NeverZero(chunks) ==
    IF \E j \in 1 .. Len(chunks) : chunks[j] # Nil
    THEN Len(chunks[CHOOSE j \in 1 .. Len(chunks) :
                        chunks[j] # Nil /\ \A h \in 1 .. (j - 1) : chunks[h] = Nil])
    ELSE 1

\* chunkSize after the first loop: the length of the first chunk that is
\* not nil, 0 if there is none.
ChunkSizeOf(chunks) ==
    IF \E j \in 1 .. Len(chunks) : chunks[j] # Nil
    THEN Len(chunks[CHOOSE j \in 1 .. Len(chunks) :
                        chunks[j] # Nil /\ \A h \in 1 .. (j - 1) : chunks[h] = Nil])
    ELSE 0

\* bytes.Repeat([]byte{0}, chunkSize)
fillerChunk(chunkSize) == [b \in 1 .. chunkSize |-> 0]

FillMissing(chunks, chunkSize) ==
    [j \in 1 .. Len(chunks) |->
        IF chunks[j] = Nil THEN fillerChunk(chunkSize) ELSE chunks[j]]

\* Whether ImportExtendedDataSquare accepts the list: it holds a square
\* number of chunks.
ImportOk(chunks, w) == w * w = Len(chunks)

Done(e, sq) ==
    /\ pc' = "done"
    /\ err' = e
    /\ result' = sq

RepairExtendedDataSquare ==
    /\ pc = "start"
    /\ LET width == CeilSqrt(Len(data))
           chunkSize == ChunkSizeOf(data)
           filled == FillMissing(data, chunkSize)
       IN  IF chunkSize = 0
           THEN /\ Done(ErrUnrepairableDataSquare, NilEds)
                /\ bitMask' = BitMatOf(data, width)
                /\ UNCHANGED <<data, eds>>
           ELSE IF ~ImportOk(filled, width)
           THEN /\ Done(ErrImport, NilEds)
                /\ bitMask' = BitMatOf(data, width)
                /\ data' = filled
                /\ UNCHANGED eds
           ELSE /\ bitMask' = BitMatOf(data, width)
                /\ data' = filled
                /\ eds' = ImportExtendedDataSquare(filled, width)
                /\ pc' = "sanity"
                /\ UNCHANGED <<err, result>>
    /\ UNCHANGED <<inputs, i, mode, solved, progressMade, sweeps, decodes,
                   sweepMask, pending>>

\* The first iteration of "for i ... for mode ...".
FirstVisit ==
    /\ i' = 0
    /\ mode' = row
    /\ UNCHANGED pending

\* eds.prerepairSanityCheck(...), and the entry of solveCrossword; first is
\* the choice of the first visit of the sweep.
SanityCheckThen(first) ==
    /\ pc = "sanity"
    /\ LET e == prerepairSanityCheck(eds, rowRoots, columnRoots, bitMask)
       IN  IF e # NoErr
           THEN /\ Done(e, NilEds)
                /\ UNCHANGED <<i, mode, solved, progressMade, sweeps,
                               sweepMask, pending>>
           ELSE /\ pc' = "solve"
                /\ first
                /\ solved' = TRUE
                /\ progressMade' = FALSE
                /\ sweeps' = 1
                /\ sweepMask' = bitMask
                /\ UNCHANGED <<err, result>>
    /\ UNCHANGED <<inputs, data, bitMask, eds, decodes>>

SanityCheck == SanityCheckThen(FirstVisit)

\* ------------------------------------------------------------------------
\* solveCrossword
\* ------------------------------------------------------------------------
\* NextVisit with the index never incremented: after the column the loop
\* returns to the row of the same index.
NextVisit_IndexStuck ==
    /\ IF mode = row
       THEN /\ mode' = column
            /\ UNCHANGED <<i, pc>>
       ELSE /\ mode' = row
            /\ UNCHANGED <<i, pc>>
    /\ UNCHANGED pending

\* The next iteration of "for i ... for mode ...", or the end of the sweep.
NextVisit ==
    /\ IF mode = row
       THEN /\ mode' = column
            /\ UNCHANGED <<i, pc>>
       ELSE IF i + 1 < eds.width
       THEN /\ i' = i + 1
            /\ mode' = row
            /\ UNCHANGED pc
       ELSE /\ pc' = "sweepEnd"
            /\ UNCHANGED <<i, mode>>
    /\ UNCHANGED pending

\* The axis is complete: nothing to do; advance is the step to the next
\* visit.
SkipAxisThen(advance) ==
    /\ pc = "solve"
    /\ ~isIncomplete(bitMask, mode, i)
    /\ advance
    /\ UNCHANGED <<inputs, data, bitMask, eds, solved, progressMade, err,
                   result, sweeps, decodes, sweepMask>>

SkipAxis == SkipAxisThen(NextVisit)

\* DecodeFailsThen with the failure of Decode returned as the error of the
\* call.
DecodeFailsThen_Fatal(advance) ==
    /\ pc = "solve"
    /\ isIncomplete(bitMask, mode, i)
    /\ ~CanDecode(Shares(eds, bitMask, mode, i))
    /\ solved' = FALSE
    /\ decodes' = decodes + 1
    /\ Done(ErrUnrepairableDataSquare, NilEds)
    /\ UNCHANGED <<inputs, data, bitMask, eds, progressMade, sweeps, sweepMask,
                   i, mode, pending>>

\* The axis is incomplete and Decode fails: "repair unsuccessful".
DecodeFailsThen(advance) ==
    /\ pc = "solve"
    /\ isIncomplete(bitMask, mode, i)
    /\ ~CanDecode(Shares(eds, bitMask, mode, i))
    /\ solved' = FALSE
    /\ decodes' = decodes + 1
    /\ advance
    /\ UNCHANGED <<inputs, data, bitMask, eds, progressMade, err, result,
                   sweeps, sweepMask>>

DecodeFails == DecodeFailsThen(NextVisit)

\* The axis is incomplete and Decode succeeds: the axis is rebuilt, verified
\* and written, or an error is returned.
SolveAxisThen(advance) ==
    /\ pc = "solve"
    /\ isIncomplete(bitMask, mode, i)
    /\ CanDecode(Shares(eds, bitMask, mode, i))
    /\ \E decoded \in Decode(Shares(eds, bitMask, mode, i)) :
         LET after == AfterDecode(eds, bitMask, rowRoots, columnRoots, mode, i, decoded)
         IN  /\ progressMade' = TRUE
             /\ decodes' = decodes + 1
             /\ bitMask' = after.mask
             /\ eds' = after.eds
             /\ IF after.err # NoErr
                THEN /\ Done(after.err, NilEds)
                     /\ UNCHANGED <<i, mode, pending>>
                ELSE /\ advance
                     /\ UNCHANGED <<err, result>>
    /\ UNCHANGED <<inputs, data, solved, sweeps, sweepMask>>

SolveAxis == SolveAxisThen(NextVisit)

\* SweepOutcome that also leaves the loop normally when no progress was made.
SweepOutcome_StopWithoutProgress(isSolved, madeProgress) ==
    IF isSolved \/ ~madeProgress THEN "return" ELSE "again"

\* The decision after a full sweep: "if solved { break } else if
\* !progressMade { return ErrUnrepairableDataSquare }", else sweep again.
SweepOutcome(isSolved, madeProgress) ==
    IF isSolved THEN "return"
    ELSE IF ~madeProgress THEN "unrepairable"
    ELSE "again"

\* After a full sweep: return, fail or sweep again.
EndSweepThen(first) ==
    /\ pc = "sweepEnd"
    /\ IF SweepOutcome(solved, progressMade) = "return"
       THEN /\ Done(NoErr, eds)
            /\ UNCHANGED <<i, mode, solved, progressMade, sweeps, sweepMask,
                           pending>>
       ELSE IF SweepOutcome(solved, progressMade) = "unrepairable"
       THEN /\ Done(ErrUnrepairableDataSquare, NilEds)
            /\ UNCHANGED <<i, mode, solved, progressMade, sweeps, sweepMask,
                           pending>>
       ELSE /\ pc' = "solve"
            /\ first
            /\ solved' = TRUE
            /\ progressMade' = FALSE
            /\ sweeps' = sweeps + 1
            /\ sweepMask' = bitMask
            /\ UNCHANGED <<err, result>>
    /\ UNCHANGED <<inputs, data, bitMask, eds, decodes>>

EndSweep == EndSweepThen(FirstVisit)

Next ==
    \/ RepairExtendedDataSquare
    \/ SanityCheck
    \/ SkipAxis
    \/ DecodeFails
    \/ SolveAxis
    \/ EndSweep

Spec == Init /\ [][Next]_vars

\* ------------------------------------------------------------------------
\* Vocabulary of the properties
\* ------------------------------------------------------------------------
\* Width of the square of the call, and of its original data.
W == CeilSqrt(Len(data))
K == W \div 2

\* The chunk list of the call fills a square.
IsSquareInput == W > 0 /\ W * W = Len(data)

\* Cell (r, c) was present in the input.
InputPresent(r, c) == (r * W + c + 1) \notin erased

InputRowComplete(r) == \A c \in Idx(W) : InputPresent(r, c)
InputColComplete(c) == \A r \in Idx(W) : InputPresent(r, c)

KnownInRow(r) == Cardinality({c \in Idx(W) : InputPresent(r, c)})
KnownInCol(c) == Cardinality({r \in Idx(W) : InputPresent(r, c)})

\* The input is a correctly encoded square with its own roots.
Unmodified == tamper = NoTamper

Returned == pc = "done"
Succeeded == pc = "done" /\ err = NoErr

IsByzantine(e) == e.kind \in {"byzantineRow", "byzantineColumn"}

\* The axis of the next visit, as it stands in a square.
AxisOf(sq, m, n) == IF m = row THEN Row(sq, n) ELSE Column(sq, n)

AxisMaskIsOne(mat, m, n) == IF m = row THEN RowIsOne(mat, n) ELSE ColumnIsOne(mat, n)

\* The solver is about to decode the axis (mode, i).
AboutToDecode ==
    /\ pc = "solve"
    /\ isIncomplete(bitMask, mode, i)
    /\ CanDecode(Shares(eds, bitMask, mode, i))

\* ------------------------------------------------------------------------
\* C1: whenever RepairExtendedDataSquare returns without error, the root of
\* every row i of the returned square equals rowRoots[i] and the root of
\* every column i equals columnRoots[i], also for the axes that were
\* completed only by the solving of orthogonal axes.
\* ------------------------------------------------------------------------
C1_ReturnedSquareMatchesRoots ==
    Succeeded =>
        \A n \in Idx(result.width) :
            /\ RowRoot(result, n) = rowRoots[n + 1]
            /\ ColRoot(result, n) = columnRoots[n + 1]

\* ------------------------------------------------------------------------
\* C2: round trip.  For a correctly encoded square with correct roots and
\* erasures that leave at least originalDataWidth known chunks in every row
\* and every column, the call returns no error and the returned square
\* equals the original square in every cell.
\* ------------------------------------------------------------------------
C2_RoundTrip ==
    ( /\ Returned
      /\ IsSquareInput
      /\ Unmodified
      /\ \A n \in Idx(W) : KnownInRow(n) >= K /\ KnownInCol(n) >= K )
    => /\ err = NoErr
       /\ result.square = original

\* ------------------------------------------------------------------------
\* C3: when the solver decodes an axis whose data half has missing cells
\* and whose parity half is fully present, the vector verified against the
\* root has exactly width chunks: the decoded originals followed by the
\* known parity chunks; so with a correct root the axis is accepted, its
\* missing data cells are recovered and its parity cells keep their values.
\* ------------------------------------------------------------------------
C3_ParityCopiedVerbatim ==
    [][ ( /\ AboutToDecode
          /\ ~isExtendedPartIncomplete(eds, bitMask, mode, i) )
        => \A decoded \in Decode(Shares(eds, bitMask, mode, i)) :
             LET shares == Shares(eds, bitMask, mode, i)
                 full == decoded \o SubSeq(shares, eds.originalDataWidth + 1, eds.width)
             IN  /\ Len(RebuiltShares(eds, bitMask, mode, i, decoded)) = eds.width
                 /\ RebuiltShares(eds, bitMask, mode, i, decoded) = full
                 /\ verifyAgainstRoots(rowRoots, columnRoots, mode, i, full) = NoErr
                    => /\ err' = NoErr
                       /\ AxisOf(eds', mode, i) = full
                       /\ AxisMaskIsOne(bitMask', mode, i) ]_vars

\* ------------------------------------------------------------------------
\* C4: tamper detection.  One chunk of a fully present axis is mutated in
\* the chunk list while the supplied roots stay those of the original.
\* ------------------------------------------------------------------------
TamperedDataOnly == tamper.inData /\ ~tamper.inRowRoots /\ ~tamper.inColRoots

\* The mutated chunk lies on a fully present axis.
TamperedAxisComplete ==
    /\ IsSquareInput
    /\ TamperedDataOnly
    /\ InputRowComplete(tamper.r) \/ InputColComplete(tamper.c)

\* C4 as claimed: the call fails with the byzantine error whose mode and
\* index are those of the tampered axis.
C4_TamperIsByzantine ==
    (Returned /\ TamperedAxisComplete)
    => err \in {ErrByzantineRow(n) : n \in {m \in {tamper.r} : InputRowComplete(m)}}
         \cup {ErrByzantineColumn(n) : n \in {m \in {tamper.c} : InputColComplete(m)}}

\* C4 as amended: the call fails in the pre-repair sanity check, before any
\* decode, with the "bad root input" error (no byzantine error) that names
\* the first fully present axis through the mutated chunk in scan order:
\* the tampered row, or the fully present column through the chunk when
\* its index is smaller or the row is not fully present.
C4_TamperIsBadRootInput ==
    (Returned /\ TamperedAxisComplete)
    => /\ err = IF /\ InputRowComplete(tamper.r)
                   /\ tamper.r <= tamper.c \/ ~InputColComplete(tamper.c)
                THEN ErrBadRoot(row, tamper.r)
                ELSE ErrBadRoot(column, tamper.c)
       /\ decodes = 0
       /\ sweeps = 0
       /\ result = NilEds

C4_Witness ==
    /\ Returned
    /\ TamperedAxisComplete
    /\ W = 4
    /\ InputColComplete(tamper.c)
    /\ ~InputRowComplete(tamper.r)
    /\ err = ErrBadRoot(column, tamper.c)

\* ------------------------------------------------------------------------
\* C5: cascading detection.  When the solver reconstructs an incomplete
\* axis A and a previously unknown position j of A lies on an orthogonal
\* axis B all of whose other cells are known, B's full vector with the new
\* value is verified against B's root, and a mismatch makes the repair fail
\* with the byzantine error of B's mode and index; the axis is not written.
\* ------------------------------------------------------------------------
\* The orthogonal axis through position j of axis (m, n), with chunk at the
\* crossing.
OrthogonalVector(sq, m, n, j, chunk) ==
    [p \in 1 .. sq.width |->
        IF p - 1 = n THEN chunk
        ELSE IF m = row THEN sq.square[p - 1][j] ELSE sq.square[j][p - 1]]

\* Every cell of that orthogonal axis but the crossing is known.
OthersKnown(mat, m, n, j) ==
    \A p \in DOMAIN mat :
        p # n => IF m = row THEN mat[p][j] ELSE mat[j][p]

\* The positions of axis (m, n) whose orthogonal axis is completed by the
\* rebuilt shares and does not match its supplied root.
MismatchedOrthogonals(sq, mat, m, n, rebuiltShares) ==
    {j \in Idx(sq.width) :
        /\ j < Len(rebuiltShares)
        /\ ~(IF m = row THEN Get(mat, n, j) ELSE Get(mat, j, n))
        /\ OthersKnown(mat, m, n, j)
        /\ TreeRoot(OrthogonalVector(sq, m, n, j, rebuiltShares[j + 1]))
             # (IF m = row THEN columnRoots[j + 1] ELSE rowRoots[j + 1])}

\* C5: a decoded axis that completes a mismatching orthogonal axis is not
\* written, and the call fails with the orthogonal axis's byzantine error.
C5_CascadeDetected ==
    [][ AboutToDecode
        => \A decoded \in Decode(Shares(eds, bitMask, mode, i)) :
             LET rebuilt == RebuiltShares(eds, bitMask, mode, i, decoded)
                 bad == MismatchedOrthogonals(eds, bitMask, mode, i, rebuilt)
             IN  ( /\ verifyAgainstRoots(rowRoots, columnRoots, mode, i, rebuilt) = NoErr
                   /\ bad # {} )
                 => /\ ~( /\ err' = NoErr
                          /\ eds' = InsertShares(eds, mode, i, rebuilt) )
                    /\ Cardinality(Decode(Shares(eds, bitMask, mode, i))) = 1
                       => err' \in {IF mode = row THEN ErrByzantineColumn(j)
                                                  ELSE ErrByzantineRow(j) : j \in bad} ]_vars

\* ------------------------------------------------------------------------
\* C6: insufficiency.  If the input passes the sanity check, some axis is
\* incomplete and no sequence of axis decodes can complete the square, the
\* call returns ErrUnrepairableDataSquare and no square, after a sweep in
\* which a decode failed and none succeeded.
\* ------------------------------------------------------------------------
AllCells == Idx(W) \X Idx(W)

InputKnown == {cell \in AllCells : InputPresent(cell[1], cell[2])}

\* The cells known once every axis with at least K known cells is solved.
RECURSIVE Closure(_)
Closure(known) ==
    LET rowOk(r) == Cardinality({c \in Idx(W) : <<r, c>> \in known}) >= K
        colOk(c) == Cardinality({r \in Idx(W) : <<r, c>> \in known}) >= K
        more == known \cup {cell \in AllCells : rowOk(cell[1]) \/ colOk(cell[2])}
    IN  IF more = known THEN known ELSE Closure(more)

Repairable == Closure(InputKnown) = AllCells

\* The sanity check passed: the solver was entered.
PassedSanityCheck == sweeps >= 1

\* C6: an input that passes the sanity check and cannot be completed ends
\* with ErrUnrepairableDataSquare, after a sweep without progress.
C6_Insufficiency ==
    ( /\ Returned
      /\ IsSquareInput
      /\ PassedSanityCheck
      /\ InputKnown # AllCells
      /\ ~Repairable )
    => /\ err = ErrUnrepairableDataSquare
       /\ result = NilEds
       /\ ~solved
       /\ ~progressMade

\* ------------------------------------------------------------------------
\* C7: no partial result.  Every call ends with a nil error and a square in
\* which every presence bit is true, or with an error and a nil square.
\* ------------------------------------------------------------------------
\* C7: a returned call has a nil error and a complete square, or an error
\* and no square.
C7_NoPartialResult ==
    Returned
    => \/ /\ err = NoErr
          /\ result # NilEds
          /\ result = eds
          /\ \A r \in Idx(result.width), c \in Idx(result.width) : Get(bitMask, r, c)
       \/ /\ err # NoErr
          /\ result = NilEds

C7_Witness ==
    /\ Succeeded
    /\ W = 4
    /\ decodes > 0
    /\ sweeps > 1

\* ------------------------------------------------------------------------
\* C8: idempotence.  When every chunk of the input is present, every root
\* matches and every axis's parity is the encoding of its data half, the
\* call returns no error after a single sweep without any decode attempt,
\* and the returned square equals the input in every cell.
\* ------------------------------------------------------------------------
\* The input as a square (every chunk present).
InputSquare == ImportExtendedDataSquare(data, W)

ConsistentInput ==
    /\ IsSquareInput
    /\ erased = {}
    /\ \A n \in Idx(W) :
         /\ RowRoot(InputSquare, n) = rowRoots[n + 1]
         /\ ColRoot(InputSquare, n) = columnRoots[n + 1]
         /\ Encode(rowSlice(InputSquare, n, 0, K)) = rowSlice(InputSquare, n, K, K)
         /\ Encode(columnSlice(InputSquare, 0, n, K)) = columnSlice(InputSquare, K, n, K)

\* C8: a fully present, consistent input is returned unchanged after one
\* sweep without a decode attempt.
C8_Idempotence ==
    (Returned /\ ConsistentInput)
    => /\ err = NoErr
       /\ sweeps = 1
       /\ decodes = 0
       /\ result = InputSquare

C8_Witness ==
    /\ Succeeded
    /\ ConsistentInput
    /\ W = 4

\* ------------------------------------------------------------------------
\* C9: if no chunk of the input is present (all nil, or an empty list), the
\* call returns ErrUnrepairableDataSquare immediately: no placeholder is
\* filled in, no square is imported, neither the sanity check nor the
\* solver runs.
\* ------------------------------------------------------------------------
NoChunkPresent == erased = 1 .. Len(data)

\* C9: without any chunk the call goes from its start straight to the
\* return of ErrUnrepairableDataSquare and touches nothing.
C9_NothingPresent ==
    NoChunkPresent
    => /\ pc \in {"start", "done"}
       /\ pc = "done"
          => /\ err = ErrUnrepairableDataSquare
             /\ result = NilEds
             /\ eds = NilEds
             /\ \A j \in 1 .. Len(data) : data[j] = Nil
             /\ sweeps = 0
             /\ decodes = 0

C9_Witness ==
    /\ Returned
    /\ NoChunkPresent
    /\ Len(data) = 16
    /\ err = ErrUnrepairableDataSquare

\* ------------------------------------------------------------------------
\* C10: verify before commit.  A step of the solver changes the presence
\* bits and the cells of the square only by writing an axis whose rebuilt
\* vector has passed the root verification and the orthogonal checks; a
\* step that returns an error changes no cell and no presence bit.
\* ------------------------------------------------------------------------
\* C10: every write of the solver is the write of a verified rebuilt axis,
\* and an error step writes nothing.
C10_VerifyBeforeCommit ==
    [][ pc = "solve"
        => /\ err' # NoErr => (eds' = eds /\ bitMask' = bitMask)
           /\ (eds' # eds \/ bitMask' # bitMask)
              => /\ AboutToDecode
                 /\ \E decoded \in Decode(Shares(eds, bitMask, mode, i)) :
                      LET rebuilt == RebuiltShares(eds, bitMask, mode, i, decoded)
                      IN  /\ VerifyErr(eds, bitMask, rowRoots, columnRoots,
                                       mode, i, rebuilt) = NoErr
                          /\ bitMask' = SetAxisMask(bitMask, mode, i)
                          /\ eds' = InsertShares(eds, mode, i, rebuilt) ]_vars

C10_Witness ==
    /\ Returned
    /\ IsByzantine(err)
    /\ decodes > 1
    /\ \E r \in Idx(W), c \in Idx(W) : Get(bitMask, r, c) /\ ~InputPresent(r, c)

\* ------------------------------------------------------------------------
\* C13: the presence bitmask is monotone over the whole call: a bit that is
\* true stays true, and the only change of the mask is the setting of the
\* bits of the axis that is committed.
\* ------------------------------------------------------------------------
\* Cell (r, c) lies on the axis (m, n).
OnAxis(r, c, m, n) == IF m = row THEN r = n ELSE c = n

\* C13: every step after the construction of the mask keeps every true bit,
\* and a step that changes the mask is the commit of the decoded axis
\* (mode, i), which sets the bits of that axis and no other bit.
C13_BitMaskMonotone ==
    [][ pc # "start"
        => /\ DOMAIN bitMask' = DOMAIN bitMask
           /\ \A r \in Idx(W), c \in Idx(W) : Get(bitMask, r, c) => Get(bitMask', r, c)
           /\ bitMask' # bitMask
              => /\ AboutToDecode
                 /\ err' = NoErr
                 /\ \A r \in Idx(W), c \in Idx(W) :
                      Get(bitMask', r, c) = (Get(bitMask, r, c) \/ OnAxis(r, c, mode, i)) ]_vars

C13_Witness ==
    /\ pc = "solve"
    /\ sweeps = 2
    /\ \E r \in Idx(W), c \in Idx(W) : Get(bitMask, r, c) /\ ~InputPresent(r, c)
    /\ \E r \in Idx(W), c \in Idx(W) : ~Get(bitMask, r, c)
    /\ \A r \in Idx(W), c \in Idx(W) : InputPresent(r, c) => Get(bitMask, r, c)

\* ------------------------------------------------------------------------
\* C14: pre-repair root check.  A fully present axis of the input whose
\* computed root differs from the supplied root makes the call fail with a
\* non-byzantine malformed-input error, before any decode attempt and
\* before any cell or presence bit is changed.
\* ------------------------------------------------------------------------
Modes == {row, column}

InputAxisComplete(m, n) == IF m = row THEN InputRowComplete(n) ELSE InputColComplete(n)

SuppliedRoot(m, n) == IF m = row THEN rowRoots[n + 1] ELSE columnRoots[n + 1]

\* The axis (m, n) is fully present in the input and its root is not the
\* supplied one.
RootMismatch(m, n) ==
    /\ InputAxisComplete(m, n)
    /\ TreeRoot(AxisOf(InputSquare, m, n)) # SuppliedRoot(m, n)

\* The axis (m, n) is fully present in the input and its parity half is
\* not the encoding of its data half.
ParityMismatch(m, n) ==
    /\ InputAxisComplete(m, n)
    /\ Encode(SubSeq(AxisOf(InputSquare, m, n), 1, K))
         # SubSeq(AxisOf(InputSquare, m, n), K + 1, W)

\* Scan order: ascending index, row before column within an index.
ScanBefore(m1, n1, m2, n2) == n1 < n2 \/ (n1 = n2 /\ m1 = row /\ m2 = column)

\* The call has got past its sanity check, on a chunk list that fills a
\* square and holds a chunk.
SanityChecked ==
    /\ IsSquareInput
    /\ ~NoChunkPresent
    /\ pc \notin {"start", "sanity"}

\* The call has failed in the sanity check: nothing decoded, no sweep
\* started, no cell and no presence bit changed.
FailedInSanityCheck ==
    /\ Returned
    /\ err # NoErr
    /\ result = NilEds
    /\ decodes = 0
    /\ sweeps = 0
    /\ eds = InputSquare
    /\ \A r \in Idx(W), c \in Idx(W) : Get(bitMask, r, c) = InputPresent(r, c)

\* C14 as claimed: with a root mismatch on a fully present axis the call
\* fails in the sanity check with an error that is neither byzantine nor
\* ErrUnrepairableDataSquare.
C14_RootMismatchIsMalformedInput ==
    (SanityChecked /\ \E m \in Modes, n \in Idx(W) : RootMismatch(m, n))
    => /\ FailedInSanityCheck
       /\ ~IsByzantine(err)
       /\ err # ErrUnrepairableDataSquare

\* C14 as amended: with a root mismatch on a fully present axis the call
\* fails in the sanity check; the error is the "bad root input" error of
\* the first such axis in scan order, unless a fully present axis of a
\* smaller index has a parity mismatch, and then it is the byzantine error
\* of the first such axis.
C14_RootMismatchFailsSanityCheck ==
    SanityChecked
    => \A m \in Modes, n \in Idx(W) :
         (/\ RootMismatch(m, n)
          /\ \A m2 \in Modes, n2 \in Idx(W) :
               RootMismatch(m2, n2) => ~ScanBefore(m2, n2, m, n))
         => /\ FailedInSanityCheck
            /\ IF \E m2 \in Modes, n2 \in 0 .. (n - 1) : ParityMismatch(m2, n2)
               THEN \E m2 \in Modes, n2 \in 0 .. (n - 1) :
                      /\ ParityMismatch(m2, n2)
                      /\ \A m3 \in Modes, n3 \in 0 .. (n - 1) :
                           ParityMismatch(m3, n3) => ~ScanBefore(m3, n3, m2, n2)
                      /\ err = IF m2 = row THEN ErrByzantineRow(n2)
                                           ELSE ErrByzantineColumn(n2)
               ELSE err = ErrBadRoot(m, n)

C14_Witness ==
    /\ SanityChecked
    /\ W = 4
    /\ erased # {}
    /\ err = ErrBadRoot(column, 2)
    /\ RootMismatch(column, 2)
    /\ RootMismatch(row, 3)
    /\ \E m \in Modes : ParityMismatch(m, 2)

\* ------------------------------------------------------------------------
\* C15: pre-repair parity check.  If every fully present axis has a
\* matching root, and the first fully present axis in scan order whose
\* parity half differs from the encoding of its data half is (mode, i),
\* the call fails with the byzantine error of that mode and index; axes
\* that are not fully present are not parity-checked.
\* ------------------------------------------------------------------------
\* C15: without root mismatch, the first parity mismatch in scan order is
\* the byzantine error returned by the sanity check, and a byzantine error
\* of the sanity check always names a fully present axis.
C15_FirstParityMismatchIsByzantine ==
    SanityChecked
    => /\ (\A m \in Modes, n \in Idx(W) : ~RootMismatch(m, n))
          => \A m \in Modes, n \in Idx(W) :
               (/\ ParityMismatch(m, n)
                /\ \A m2 \in Modes, n2 \in Idx(W) :
                     ParityMismatch(m2, n2) => ~ScanBefore(m2, n2, m, n))
               => /\ FailedInSanityCheck
                  /\ err = IF m = row THEN ErrByzantineRow(n)
                                      ELSE ErrByzantineColumn(n)
       /\ (Returned /\ sweeps = 0 /\ IsByzantine(err))
          => /\ InputAxisComplete(IF err.kind = "byzantineRow" THEN row ELSE column,
                                  err.index)
             /\ ParityMismatch(IF err.kind = "byzantineRow" THEN row ELSE column,
                               err.index)

C15_Witness ==
    /\ SanityChecked
    /\ W = 4
    /\ \A m \in Modes, n \in Idx(W) : ~RootMismatch(m, n)
    /\ ParityMismatch(row, 1)
    /\ ParityMismatch(column, 1)
    /\ ~InputAxisComplete(row, 0)
    /\ err = ErrByzantineRow(1)

\* ------------------------------------------------------------------------
\* C17: frame.  Committing a solved row i changes only cells and presence
\* bits of row i, committing a solved column i only cells and presence
\* bits of column i; every other cell and bit and both root sequences are
\* left unchanged by that step.
\* ------------------------------------------------------------------------
\* C17: a step that changes the square or the mask is the commit of the
\* axis (mode, i) and leaves every cell and bit off that axis, the shape of
\* the square and both root sequences as they were.
C17_CommitFrame ==
    [][ (pc = "solve" /\ (eds' # eds \/ bitMask' # bitMask))
        => /\ AboutToDecode
           /\ eds'.width = eds.width
           /\ eds'.originalDataWidth = eds.originalDataWidth
           /\ \A r \in Idx(W), c \in Idx(W) :
                ~OnAxis(r, c, mode, i)
                => /\ eds'.square[r][c] = eds.square[r][c]
                   /\ Get(bitMask', r, c) = Get(bitMask, r, c)
           /\ rowRoots' = rowRoots
           /\ columnRoots' = columnRoots ]_vars

C17_Witness ==
    /\ pc = "solve"
    /\ W = 4
    /\ \E c \in Idx(W) : ColumnIsOne(bitMask, c) /\ ~InputColComplete(c)
    /\ \E r \in Idx(W) : RowIsOne(bitMask, r) /\ ~InputRowComplete(r)
    /\ \E r \in Idx(W), c \in Idx(W) : ~Get(bitMask, r, c)
    /\ \E r \in Idx(W), c \in Idx(W) :
         ~InputPresent(r, c) /\ eds.square[r][c] # fillerChunk(1)

\* ------------------------------------------------------------------------
\* C12: the solver always terminates, with success, a byzantine error or
\* ErrUnrepairableDataSquare, and runs at most 2 x width sweeps: every
\* sweep that ends with progressMade true and no error has set all presence
\* bits of at least one axis that was incomplete at its start.
\* ------------------------------------------------------------------------
\* How far the call has got: the sweep, the stage within the call, the
\* index and the mode of the visit.
Stage == CASE pc = "start" -> 0
           [] pc = "sanity" -> 1
           [] pc = "solve" -> 2
           [] pc = "sweepEnd" -> 3
           [] pc = "done" -> 4

Position == <<sweeps, Stage, i, mode>>

\* Lexicographic order of two sequences of the same length.
LexLess(a, b) ==
    \E j \in 1 .. Len(a) : a[j] < b[j] /\ \A h \in 1 .. (j - 1) : a[h] = b[h]

\* At the end of a sweep that made progress some axis is complete that was
\* incomplete when the sweep started.
SweepCompletedAnAxis ==
    \E m \in Modes, n \in Idx(W) :
        isIncomplete(sweepMask, m, n) /\ ~isIncomplete(bitMask, m, n)

\* The loop of the solver stands at an axis of the square, and a Decode that
\* has enough chunks yields a result: the visit can be made.
VisitCanBeMade ==
    pc = "solve"
    => /\ i \in Idx(eds.width)
       /\ mode \in Modes
       /\ AboutToDecode => Decode(Shares(eds, bitMask, mode, i)) # {}

\* C12: every step moves the call forward in a bounded order (at most
\* 2 x width sweeps of at most 2 x width visits), the visit a sweep has
\* come to can always be made, the solver returns success, a byzantine
\* error or ErrUnrepairableDataSquare, and a sweep that ends with progress
\* has completed an axis.
C12_TerminatesWithinSweeps ==
    [][ /\ LexLess(Position, Position')
        /\ sweeps' <= 2 * W
        /\ i' <= W
        /\ VisitCanBeMade'
        /\ (pc' = "done" /\ sweeps' >= 1)
           => (err' = NoErr \/ IsByzantine(err') \/ err' = ErrUnrepairableDataSquare)
        /\ (pc' = "sweepEnd" /\ progressMade') => SweepCompletedAnAxis' ]_vars

C12_Witness ==
    /\ pc = "sweepEnd"
    /\ W = 4
    /\ sweeps = 1
    /\ progressMade
    /\ ~solved
    /\ SweepCompletedAnAxis

\* ------------------------------------------------------------------------
\* C16: a decode failure on an axis is never fatal by itself: the solver
\* moves on to the next axis, and if another axis was decoded in the same
\* sweep it runs another sweep in which the failed axis is attempted
\* again; ErrUnrepairableDataSquare is never returned from a sweep in which
\* some decode succeeded.
\* ------------------------------------------------------------------------
\* The solver stands at an incomplete axis that Decode cannot rebuild.
AboutToFailDecode ==
    /\ pc = "solve"
    /\ isIncomplete(bitMask, mode, i)
    /\ ~CanDecode(Shares(eds, bitMask, mode, i))

\* C16: a failed Decode changes nothing but solved and leads to the next
\* visit or the end of the sweep; every incomplete axis a sweep comes to is
\* given to Decode; a sweep that is not solved and has decoded an axis is
\* followed by a full new sweep; ErrUnrepairableDataSquare is returned only
\* from a sweep without a successful Decode; and a return without error
\* leaves no axis incomplete.
C16_DecodeFailureNotFatal ==
    [][ /\ AboutToFailDecode
           => /\ err' = NoErr
              /\ result' = NilEds
              /\ ~solved'
              /\ eds' = eds
              /\ bitMask' = bitMask
              /\ \/ pc' = "solve" /\ ScanBefore(mode, i, mode', i')
                 \/ pc' = "sweepEnd"
        /\ (pc = "solve" /\ isIncomplete(bitMask, mode, i))
           => decodes' = decodes + 1
        /\ (pc = "sweepEnd" /\ ~solved /\ (progressMade \/ bitMask # sweepMask))
           => /\ pc' = "solve"
              /\ err' = NoErr
              /\ sweeps' = sweeps + 1
              /\ i' = 0
              /\ mode' = row
        /\ err' = ErrUnrepairableDataSquare
           => (~progressMade /\ bitMask = sweepMask)
        /\ (pc' = "done" /\ err' = NoErr)
           => \A m \in Modes, n \in Idx(W) : ~isIncomplete(bitMask', m, n) ]_vars

C16_Witness ==
    /\ pc \in {"solve", "sweepEnd"}
    /\ W = 4
    /\ sweeps = 2
    /\ \E m \in Modes, n \in Idx(W) :
         /\ (IF m = row THEN KnownInRow(n) ELSE KnownInCol(n)) < K
         /\ isIncomplete(sweepMask, m, n)
         /\ ~isIncomplete(bitMask, m, n)

\* ------------------------------------------------------------------------
\* C18: placeholders are never trusted: a cell whose presence bit is false
\* is never passed to the decoder as a known chunk, never used as encoder
\* input and never part of a vector whose root is compared with a supplied
\* root; it holds the placeholder until the commit that sets its bit.
\* ------------------------------------------------------------------------
\* The presence bit of position j (from 0) of the axis (m, n).
AxisBit(mat, m, n, j) == IF m = row THEN Get(mat, n, j) ELSE Get(mat, j, n)

\* The axis named by an error of the sanity check.
ErrAxisComplete(e) ==
    CASE e.kind = "badRootInput" -> InputAxisComplete(e.mode, e.index)
      [] e.kind = "byzantineRow" -> InputAxisComplete(row, e.index)
      [] e.kind = "byzantineColumn" -> InputAxisComplete(column, e.index)
      [] OTHER -> TRUE

\* C18: every cell with a false bit holds the placeholder; the shares given
\* to Decode are nil exactly at the false bits and the cells elsewhere;
\* the vector that is verified is made of the decoded chunks followed by
\* their encoding or by chunks with a true bit; and the sanity check, which
\* computes roots and encodes data halves, only fails on (and so only
\* judges) axes that are fully present.
C18_PlaceholdersNeverTrusted ==
    (IsSquareInput /\ ~NoChunkPresent /\ pc # "start")
    => /\ \A r \in Idx(W), c \in Idx(W) :
            ~Get(bitMask, r, c) => eds.square[r][c] = fillerChunk(ChunkSizeOf(data))
       /\ (pc = "solve" /\ isIncomplete(bitMask, mode, i))
          => \A j \in Idx(W) :
               Shares(eds, bitMask, mode, i)[j + 1]
                 = IF AxisBit(bitMask, mode, i, j)
                   THEN AxisOf(eds, mode, i)[j + 1] ELSE Nil
       /\ AboutToDecode
          => \A decoded \in Decode(Shares(eds, bitMask, mode, i)) :
               LET rebuilt == RebuiltShares(eds, bitMask, mode, i, decoded)
               IN  /\ Len(decoded) = K
                   /\ SubSeq(rebuilt, 1, K) = decoded
                   /\ \A p \in (K + 1) .. Len(rebuilt) :
                        \/ rebuilt[p] = Encode(decoded)[p - K]
                        \/ /\ AxisBit(bitMask, mode, i, p - 1)
                           /\ rebuilt[p] = AxisOf(eds, mode, i)[p]
       /\ (Returned /\ sweeps = 0) => ErrAxisComplete(err)

C18_Witness ==
    /\ AboutToDecode
    /\ W = 4
    /\ sweeps = 2
    /\ \E j \in Idx(W) : ~AxisBit(bitMask, mode, i, j)
    /\ \E j \in Idx(W) : AxisBit(bitMask, mode, i, j) /\ ~AxisBit(sweepMask, mode, i, j)

\* ------------------------------------------------------------------------
\* C11: the success/failure outcome of the solver does not depend on the
\* order in which the axes are scanned: for the same square, presence
\* bitmask and roots, a sweep that visits the (index, mode) pairs in any
\* permutation succeeds if and only if it succeeds in every other order.
\* ------------------------------------------------------------------------
\* The visits of one sweep.
Axes(w) == {<<n, m>> : n \in Idx(w), m \in Modes}

\* The first visit of a sweep whose visits are taken in an arbitrary order.
FirstVisitAnyOrder ==
    \E a \in Axes(eds.width) :
        /\ i' = a[1]
        /\ mode' = a[2]
        /\ pending' = Axes(eds.width) \ {a}

\* The next visit of such a sweep: any visit still to come, or the end of
\* the sweep.
NextVisitAnyOrder ==
    IF pending = {}
    THEN /\ pc' = "sweepEnd"
         /\ UNCHANGED <<i, mode, pending>>
    ELSE /\ \E a \in pending :
              /\ i' = a[1]
              /\ mode' = a[2]
              /\ pending' = pending \ {a}
         /\ UNCHANGED pc

SanityCheckAnyOrder == SanityCheckThen(FirstVisitAnyOrder)
SkipAxisAnyOrder == SkipAxisThen(NextVisitAnyOrder)
DecodeFailsAnyOrder == DecodeFailsThen(NextVisitAnyOrder)
SolveAxisAnyOrder == SolveAxisThen(NextVisitAnyOrder)
EndSweepAnyOrder == EndSweepThen(FirstVisitAnyOrder)

InitAnyOrder == InitWith({4, 16}, MaxErasedAnyOrder, MaxTamperedErasedAnyOrder)

NextAnyOrder ==
    \/ RepairExtendedDataSquare
    \/ SanityCheckAnyOrder
    \/ SkipAxisAnyOrder
    \/ DecodeFailsAnyOrder
    \/ SolveAxisAnyOrder
    \/ EndSweepAnyOrder

\* The call with the visits of every sweep taken in an arbitrary order.
SpecAnyOrder == InitAnyOrder /\ [][NextAnyOrder]_vars

\* The presence bitmask of the input.
InputMask == [r \in Idx(W) |-> [c \in Idx(W) |-> InputPresent(r, c)]]

\* solveCrossword in the order of the code, from the visit (m, n) of a sweep
\* on: the set of its outcomes, TRUE for a return without error, over the
\* results Decode may give.
RECURSIVE SolveFrom(_, _, _, _, _, _)
SolveFrom(sq, mat, n, m, isSolved, madeProgress) ==
    IF n >= sq.width
    THEN CASE SweepOutcome(isSolved, madeProgress) = "return" -> {TRUE}
           [] SweepOutcome(isSolved, madeProgress) = "unrepairable" -> {FALSE}
           [] OTHER -> SolveFrom(sq, mat, 0, row, TRUE, FALSE)
    ELSE LET n2 == IF m = row THEN n ELSE n + 1
             m2 == IF m = row THEN column ELSE row
         IN  IF ~isIncomplete(mat, m, n)
             THEN SolveFrom(sq, mat, n2, m2, isSolved, madeProgress)
             ELSE IF ~CanDecode(Shares(sq, mat, m, n))
             THEN SolveFrom(sq, mat, n2, m2, FALSE, madeProgress)
             ELSE UNION {
                 LET after == AfterDecode(sq, mat, rowRoots, columnRoots, m, n, decoded)
                 IN  IF after.err # NoErr THEN {FALSE}
                     ELSE SolveFrom(after.eds, after.mask, n2, m2, isSolved, TRUE)
                 : decoded \in Decode(Shares(sq, mat, m, n)) }

\* C11: whatever the order of the visits, the solver returns without error
\* only if it can do so in the order of the code, and with an error only if
\* it can do so in the order of the code.
C11_OutcomeIndependentOfOrder ==
    (Returned /\ IsSquareInput /\ sweeps >= 1)
    => (err = NoErr) \in SolveFrom(InputSquare, InputMask, 0, row, TRUE, FALSE)

====
